---- MODULE Spec2Model ----
(***************************************************************************)
(* Products CRUD API (Express router over one SQL Server table).           *)
(*                                                                         *)
(* The state is the Products table with its identity counter, the shared   *)
(* poolPromise of config/database, and the request handlers in flight.     *)
(* Every async handler runs in the turns the event loop gives it: the      *)
(* synchronous part up to `await poolPromise`, the continuation that       *)
(* builds the request on the pool, and the single SQL statement with the   *)
(* continuation that shapes its result into the response (that last        *)
(* continuation reads nothing but the statement's own result).             *)
(*                                                                         *)
(* Two request contexts are modelled (Reqs); a context is reused for a new *)
(* request once its response has been sent.                                *)
(***************************************************************************)
EXTENDS Integers, Sequences, FiniteSets

\* Largest identity value the store hands out in the model.
MaxId == 2

\* The request contexts that can be in flight at the same time.
Reqs == {1, 2}

VARIABLES
    poolPromise,   \* "pending", or the value the promise resolved to
    connectCalls,  \* number of ConnectionPool.connect() calls made so far
    Products,      \* the rows of the Products table
    identity,      \* last identity value generated for Products.id
    req            \* per request context: the handler's position and data

vars == <<poolPromise, connectCalls, Products, identity, req>>

----------------------------------------------------------------------------
\* JavaScript values of the request body.  Numbers are held in thousandths
\* (1000 is 1, 19990 is 19.99) so that the scale of a decimal can be modelled.

Undefined == [t |-> "undefined", n |-> 0, s |-> ""]
Null == [t |-> "null", n |-> 0, s |-> ""]
Num(m) == [t |-> "number", n |-> m, s |-> ""]
Str(x) == [t |-> "string", n |-> 0, s |-> x]
Invalid == [t |-> "invalid", n |-> 0, s |-> ""]

\* !v is false exactly for truthy v.
Truthy(v) ==
    CASE v.t = "undefined" -> FALSE
      [] v.t = "null" -> FALSE
      [] v.t = "number" -> v.n # 0
      [] v.t = "string" -> v.s # ""
      [] OTHER -> FALSE

\* a || b
OrElse(a, b) == IF Truthy(a) THEN a ELSE b

IsNullish(v) == v.t \in {"undefined", "null"}

----------------------------------------------------------------------------
\* Parameter binding: .input(name, type, value)

\* sql.NVarChar: null and undefined bind NULL, a value that is no string is refused.
ToNVarChar(v) ==
    CASE IsNullish(v) -> Null
      [] v.t = "string" -> v
      [] OTHER -> Invalid

\* sql.Decimal(10,2): the value is rounded to two decimals (tens of thousandths).
ToDecimal(v) ==
    CASE IsNullish(v) -> Null
      [] v.t = "number" ->
            IF v.n >= 0 THEN Num(((v.n + 5) \div 10) * 10)
                        ELSE Num(0 - (((0 - v.n) + 5) \div 10) * 10)
      [] OTHER -> Invalid

\* sql.Int of a number: the fraction is cut off.
ToInt(v) ==
    CASE IsNullish(v) -> Null
      [] v.t = "number" ->
            IF v.n >= 0 THEN Num((v.n \div 1000) * 1000)
                        ELSE Num(0 - ((0 - v.n) \div 1000) * 1000)
      [] OTHER -> Invalid

\* The path segment :id is a string of characters.
NOTANUMBER == 0 - 1

DigitOf(c) ==
    CASE c = "0" -> 0 [] c = "1" -> 1 [] c = "2" -> 2 [] c = "3" -> 3
      [] c = "4" -> 4 [] c = "5" -> 5 [] c = "6" -> 6 [] c = "7" -> 7
      [] c = "8" -> 8 [] c = "9" -> 9 [] OTHER -> NOTANUMBER

RECURSIVE NumberOf(_)
NumberOf(chars) ==
    IF Len(chars) = 0 THEN 0
    ELSE LET d == DigitOf(chars[Len(chars)])
             rest == NumberOf(SubSeq(chars, 1, Len(chars) - 1))
         IN  IF d = NOTANUMBER \/ rest = NOTANUMBER THEN NOTANUMBER
             ELSE 10 * rest + d

\* sql.Int of req.params.id: the string is read as a number, NaN is refused.
IdParam(chars) == NumberOf(chars)

----------------------------------------------------------------------------
\* Inputs

PathIds == {<<"1">>, <<"2">>, <<"a", "b", "c">>}

NoBody == [name |-> Undefined, price |-> Undefined, qty |-> Undefined,
           description |-> Undefined]

Laptop == [name |-> Str("Laptop"), price |-> Num(75000000), qty |-> Num(5000),
           description |-> Undefined]

Mouse == [name |-> Str("Mouse"), price |-> Num(19990), qty |-> Num(1000),
          description |-> Str("usb")]

Bodies ==
    { Laptop, Mouse,
      [Laptop EXCEPT !.name = Undefined],
      [Laptop EXCEPT !.name = Str("")],
      [Mouse EXCEPT !.price = Null],
      [Mouse EXCEPT !.price = Num(0)],
      [Laptop EXCEPT !.qty = Undefined],
      [Mouse EXCEPT !.qty = Num(0)] }

----------------------------------------------------------------------------
\* The store

Row(id, name, price, qty, description) ==
    [id |-> id, name |-> name, price |-> price, qty |-> qty,
     description |-> description]

Ids(rows) == {row.id : row \in rows}

\* ORDER BY id DESC in place of ASC.
RECURSIVE OrderByIdDesc(_)
OrderByIdDesc(rows) ==
    IF rows = {} THEN <<>>
    ELSE LET first == CHOOSE row \in rows : \A other \in rows : row.id >= other.id
         IN  <<first>> \o OrderByIdDesc(rows \ {first})

\* ORDER BY id ASC
RECURSIVE OrderById(_)
OrderById(rows) ==
    IF rows = {} THEN <<>>
    ELSE LET first == CHOOSE row \in rows : \A other \in rows : row.id <= other.id
         IN  <<first>> \o OrderById(rows \ {first})

\* WHERE id = @id
WhereId(rows, id) == {row \in rows : row.id = id}

----------------------------------------------------------------------------
\* Responses

NoResponse == [status |-> 0, text |-> "", json |-> <<>>]

Send(status, text) == [status |-> status, text |-> text, json |-> <<>>]

Json(status, value) == [status |-> status, text |-> "", json |-> value]

\* A catch block that sends nothing.
CatchSilently(message) == NoResponse

\* catch (err) { res.status(500).send(err.message); }
Catch(message) == Send(500, message)

Idle == [pc |-> "idle", method |-> "", id |-> <<>>, body |-> NoBody,
         pool |-> "", rowsAffected |-> 0, res |-> NoResponse]

Free(r) == req[r].pc \in {"idle", "done"}

\* POST requests accepted and not yet executed.
PendingInserts == {r \in Reqs : req[r].method = "POST" /\ req[r].pc \in {"await", "query"}}

\* A check of name and price only, as the 400 message words it.
MissingNameOrPrice(body) == ~Truthy(body.name) \/ ~Truthy(body.price)

\* A check that compares against undefined and the empty string only.
MissingUndefinedOnly(body) ==
    \E v \in {body.name, body.price, body.qty} : v = Undefined \/ v = Str("")

\* if (!name || !price || !qty)
MissingRequired(body) == ~Truthy(body.name) \/ ~Truthy(body.price) \/ ~Truthy(body.qty)

Arrive(method, id, body) ==
    [Idle EXCEPT !.pc = "await", !.method = method, !.id = id, !.body = body]

Finish(r, rowsAffected, res) ==
    req' = [req EXCEPT ![r].pc = "done", ![r].rowsAffected = rowsAffected, ![r].res = res]

Init ==
    /\ poolPromise = "pending"
    /\ connectCalls = 1
    /\ Products = {}
    /\ identity = 0
    /\ req = [r \in Reqs |-> Idle]

----------------------------------------------------------------------------
\* config/database: new sql.ConnectionPool(config).connect().then(..).catch(..)

ConnectResolve ==
    /\ poolPromise = "pending"
    /\ poolPromise' = "pool"
    /\ UNCHANGED <<connectCalls, Products, identity, req>>

ConnectReject ==
    /\ poolPromise = "pending"
    /\ poolPromise' = "undefined"
    /\ UNCHANGED <<connectCalls, Products, identity, req>>

----------------------------------------------------------------------------
\* Synchronous part of each handler, up to `await poolPromise`

ListStart(r) ==
    /\ Free(r)
    /\ req' = [req EXCEPT ![r] = Arrive("LIST", <<>>, NoBody)]
    /\ UNCHANGED <<poolPromise, connectCalls, Products, identity>>

GetStart(r, id) ==
    /\ Free(r)
    /\ req' = [req EXCEPT ![r] = Arrive("GET", id, NoBody)]
    /\ UNCHANGED <<poolPromise, connectCalls, Products, identity>>

Validate(method, id, body) ==
    IF MissingRequired(body)
    THEN [Idle EXCEPT !.pc = "done", !.method = method, !.id = id, !.body = body,
                      !.res = Send(400, "Name and price are required")]
    ELSE Arrive(method, id, body)

PostStart(r, body) ==
    /\ Free(r)
    /\ identity + Cardinality(PendingInserts) < MaxId
    /\ req' = [req EXCEPT ![r] = Validate("POST", <<>>, body)]
    /\ UNCHANGED <<poolPromise, connectCalls, Products, identity>>

PutStart(r, id, body) ==
    /\ Free(r)
    /\ req' = [req EXCEPT ![r] = Validate("PUT", id, body)]
    /\ UNCHANGED <<poolPromise, connectCalls, Products, identity>>

DeleteStart(r, id) ==
    /\ Free(r)
    /\ req' = [req EXCEPT ![r] = Arrive("DELETE", id, NoBody)]
    /\ UNCHANGED <<poolPromise, connectCalls, Products, identity>>

----------------------------------------------------------------------------
\* const pool = await poolPromise; pool.request()

\* A handler that opens its own pool: one more connect() call per request.
ConnectPerRequest == connectCalls + 1

\* Number of connect() calls after a handler awaited the promise.
ConnectCallsAfterAwait == connectCalls

\* The value the handler's await yields.
Awaited == poolPromise

AwaitPool(r) ==
    /\ req[r].pc = "await"
    /\ poolPromise # "pending"
    /\ connectCalls' = ConnectCallsAfterAwait
    /\ IF Awaited = "undefined"
       THEN req' = [req EXCEPT ![r].pc = "done", ![r].pool = Awaited,
                               ![r].res = Catch("Cannot read properties of undefined (reading 'request')")]
       ELSE req' = [req EXCEPT ![r].pc = "query", ![r].pool = Awaited]
    /\ UNCHANGED <<poolPromise, Products, identity>>

----------------------------------------------------------------------------
\* The SQL statements

\* INSERT INTO Products (name, price, description, qty) VALUES (...)
InsertInto(rows, row) == rows \cup {row}

\* The identity value the INSERT generates, read back by SCOPE_IDENTITY().
NextIdentity(rows, last) == last + 1

\* An upsert: the row is inserted when no row has the id.
UpdateOrInsert(rows, id, name, price, qty, description) ==
    IF \E row \in rows : row.id = id
    THEN {IF row.id = id THEN Row(row.id, name, price, qty, description) ELSE row : row \in rows}
    ELSE rows \cup {Row(id, name, price, qty, description)}

\* An UPDATE that keeps the old description when the new one is empty.
UpdateKeepDescription(rows, id, name, price, qty, description) ==
    {IF row.id = id
     THEN Row(row.id, name, price, qty,
              IF description = Str("") THEN row.description ELSE description)
     ELSE row : row \in rows}

\* UPDATE Products SET name, price, description, qty WHERE id = @id
UpdateSet(rows, id, name, price, qty, description) ==
    {IF row.id = id THEN Row(row.id, name, price, qty, description) ELSE row : row \in rows}

\* A DELETE without its WHERE clause.
DeleteFromAll(rows, id) == {}

\* DELETE FROM Products WHERE id = @id
DeleteFrom(rows, id) == {row \in rows : row.id # id}

\* result.rowsAffected[0] of a statement with WHERE id = @id
RowsAffected(rows, id) == Cardinality(WhereId(rows, id))

BoundFields(body) ==
    [name |-> ToNVarChar(body.name),
     price |-> ToDecimal(body.price),
     qty |-> ToInt(body.qty),
     description |-> ToNVarChar(OrElse(body.description, Str("")))]

BindFails(p) == Invalid \in {p.name, p.price, p.qty, p.description}

----------------------------------------------------------------------------
\* The statement of each handler and the response built from its result

ListResponse(recordset) == Json(200, recordset)

ListQuery(r) ==
    /\ req[r].pc = "query"
    /\ req[r].method = "LIST"
    /\ Finish(r, Cardinality(Products), ListResponse(OrderById(Products)))
    /\ UNCHANGED <<poolPromise, connectCalls, Products, identity>>

GetResponse(recordset) ==
    IF Len(recordset) = 0 THEN Send(404, "Product not found")
    ELSE Json(200, recordset[1])

GetQuery(r) ==
    /\ req[r].pc = "query"
    /\ req[r].method = "GET"
    /\ LET id == IdParam(req[r].id)
       IN  IF id = NOTANUMBER
           THEN Finish(r, 0, Catch("Validation failed for parameter 'id'. Invalid number."))
           ELSE Finish(r, RowsAffected(Products, id),
                       GetResponse(OrderById(WhereId(Products, id))))
    /\ UNCHANGED <<poolPromise, connectCalls, Products, identity>>

PostResponse(id) == Json(201, [message |-> "Product created successfully", id |-> id])

PostQuery(r) ==
    /\ req[r].pc = "query"
    /\ req[r].method = "POST"
    /\ LET p == BoundFields(req[r].body)
           id == NextIdentity(Products, identity)
       IN  IF BindFails(p)
           THEN /\ Finish(r, 0, Catch("Validation failed for parameter."))
                /\ UNCHANGED <<Products, identity>>
           ELSE /\ Products' = InsertInto(Products, Row(id, p.name, p.price, p.qty, p.description))
                /\ identity' = id
                /\ Finish(r, 1, PostResponse(id))
    /\ UNCHANGED <<poolPromise, connectCalls>>

PutResponse(rowsAffected) ==
    IF rowsAffected = 0 THEN Send(404, "Product not found")
    ELSE Send(200, "Product updated successfully")

PutQuery(r) ==
    /\ req[r].pc = "query"
    /\ req[r].method = "PUT"
    /\ LET p == BoundFields(req[r].body)
           id == IdParam(req[r].id)
       IN  IF id = NOTANUMBER \/ BindFails(p)
           THEN /\ Finish(r, 0, Catch("Validation failed for parameter."))
                /\ UNCHANGED Products
           ELSE /\ Products' = UpdateSet(Products, id, p.name, p.price, p.qty, p.description)
                /\ Finish(r, RowsAffected(Products, id), PutResponse(RowsAffected(Products, id)))
    /\ UNCHANGED <<poolPromise, connectCalls, identity>>

\* A response that does not look at rowsAffected.
DeleteResponseAlways(rowsAffected) == Send(200, "Product deleted successfully")

DeleteResponse(rowsAffected) ==
    IF rowsAffected = 0 THEN Send(404, "Product not found")
    ELSE Send(200, "Product deleted successfully")

DeleteQuery(r) ==
    /\ req[r].pc = "query"
    /\ req[r].method = "DELETE"
    /\ LET id == IdParam(req[r].id)
       IN  IF id = NOTANUMBER
           THEN /\ Finish(r, 0, Catch("Validation failed for parameter 'id'. Invalid number."))
                /\ UNCHANGED Products
           ELSE /\ Products' = DeleteFrom(Products, id)
                /\ Finish(r, RowsAffected(Products, id), DeleteResponse(RowsAffected(Products, id)))
    /\ UNCHANGED <<poolPromise, connectCalls, identity>>

----------------------------------------------------------------------------
Next ==
    \/ ConnectResolve
    \/ ConnectReject
    \/ \E r \in Reqs : ListStart(r)
    \/ \E r \in Reqs, id \in PathIds : GetStart(r, id)
    \/ \E r \in Reqs, body \in Bodies : PostStart(r, body)
    \/ \E r \in Reqs, id \in PathIds, body \in Bodies : PutStart(r, id, body)
    \/ \E r \in Reqs, id \in PathIds : DeleteStart(r, id)
    \/ \E r \in Reqs : AwaitPool(r)
    \/ \E r \in Reqs : ListQuery(r)
    \/ \E r \in Reqs : GetQuery(r)
    \/ \E r \in Reqs : PostQuery(r)
    \/ \E r \in Reqs : PutQuery(r)
    \/ \E r \in Reqs : DeleteQuery(r)

Spec == Init /\ [][Next]_vars

----------------------------------------------------------------------------
\* Vocabulary of the properties

Done(r, method) == req[r].pc = "done" /\ req[r].method = method

\* The step in which the statement of r's handler runs and its response is sent.
StatementOf(r, method) ==
    /\ req[r].pc = "query"
    /\ req[r].method = method
    /\ req'[r].pc = "done"

\* The step in which a request arrives in context r.
ArrivalOf(r, method) ==
    /\ Free(r)
    /\ req'[r].pc # "idle"
    /\ req'[r] # req[r]
    /\ req'[r].method = method

Numeric(id) == IdParam(id) # NOTANUMBER

\* A field that is missing or empty.
Absent(v) == IsNullish(v) \/ v = Str("")

AnyAbsent(body) == Absent(body.name) \/ Absent(body.price) \/ Absent(body.qty)

\* The description a record shows for a body: "" when the body omits it.
DescriptionOf(body) == IF IsNullish(body.description) THEN Str("") ELSE body.description

\* The record with the given id that matches the body field by field.
RecordOf(id, body) == Row(id, body.name, body.price, body.qty, DescriptionOf(body))

----------------------------------------------------------------------------
\* C1: every POST whose body has a non-empty name and a non-null price and
\* qty is answered 201 with a generated id, which a following GET by id is
\* then given.  Stated for the POSTs answered while the connection has not
\* failed: each of them has status 201 and carries an id the store generated.
C1_PostThenGet ==
    \A r \in Reqs :
        (/\ Done(r, "POST")
         /\ poolPromise # "undefined"
         /\ ~Absent(req[r].body.name)
         /\ ~IsNullish(req[r].body.price)
         /\ ~IsNullish(req[r].body.qty))
        => /\ req[r].res.status = 201
           /\ req[r].res.json.id \in 1..identity

C3_PutMissingId ==
    [][\A r \in Reqs :
          (/\ StatementOf(r, "PUT")
           /\ Numeric(req[r].id)
           /\ IdParam(req[r].id) \notin Ids(Products))
          => /\ req'[r].res.status = 404
             /\ Products' = Products]_vars

C3_Witness ==
    \E r \in Reqs :
        /\ Done(r, "PUT")
        /\ req[r].res.status = 404
        /\ Numeric(req[r].id)
        /\ IdParam(req[r].id) \notin Ids(Products)
        /\ Products # {}

\* C4: a DELETE of an id no row has is answered 404 and leaves the table
\* unchanged; a DELETE of an id a row has is answered 200 and removes that
\* row and no other; an id that was generated and has no row never gets a row
\* again; and a GET of an id no row has is answered 404.
C4_Delete ==
    [][/\ \A r \in Reqs :
            (StatementOf(r, "DELETE") /\ Numeric(req[r].id))
            => LET id == IdParam(req[r].id)
               IN  IF id \in Ids(Products)
                   THEN /\ req'[r].res.status = 200
                        /\ Ids(Products') = Ids(Products) \ {id}
                        /\ Products' \subseteq Products
                   ELSE /\ req'[r].res.status = 404
                        /\ Products' = Products
       /\ \A id \in 1..identity : id \notin Ids(Products) => id \notin Ids(Products')
       /\ \A r \in Reqs :
            (/\ StatementOf(r, "GET")
             /\ Numeric(req[r].id)
             /\ IdParam(req[r].id) \notin Ids(Products))
            => req'[r].res.status = 404]_vars

C4_Witness ==
    \E r, s \in Reqs :
        /\ Done(r, "DELETE")
        /\ req[r].res.status = 200
        /\ Done(s, "GET")
        /\ req[s].id = req[r].id
        /\ req[s].res.status = 404
        /\ IdParam(req[r].id) < identity
        /\ Products # {}

\* C5: the LIST statement answers 200 with the rows stored at that moment,
\* each once, in strictly ascending id order (the empty array for no rows).
C5_ListAscending ==
    [][\A r \in Reqs :
          StatementOf(r, "LIST")
          => LET list == req'[r].res.json
             IN  /\ req'[r].res.status = 200
                 /\ Len(list) = Cardinality(Products)
                 /\ {list[i] : i \in 1..Len(list)} = Products
                 /\ \A i \in 1..Len(list), j \in 1..Len(list) :
                        i < j => list[i].id < list[j].id]_vars

C5_Witness ==
    \E r, s \in Reqs :
        /\ Done(r, "LIST")
        /\ req[r].res.status = 200
        /\ Len(req[r].res.json) = 2
        /\ req[r].res.json[1].name = Str("Mouse")
        /\ Done(s, "PUT")
        /\ req[s].res.status = 200

\* C6: connect() is called once; no handler runs past its await while the
\* attempt is in flight, and every handler that ran past it holds the value
\* that one attempt resolved to.
C6_ConnectOnce ==
    /\ connectCalls = 1
    /\ \A r \in Reqs :
          req[r].pc = "query" \/ req[r].pool # ""
          => /\ poolPromise # "pending"
             /\ req[r].pool = poolPromise

C6_Witness ==
    /\ poolPromise = "pool"
    /\ \A r \in Reqs : req[r].pool = "pool"
    /\ \E r \in Reqs : req[r].pc = "query"
    /\ \E r \in Reqs : req[r].pc = "done"

\* C7: once the connection attempt has failed the promise keeps the value
\* undefined, connect() is not called again, the table is never touched, a
\* waiting handler can always take its next step, and every request that got
\* past its await ended with status 500.
C7_FailedConnect ==
    /\ [](poolPromise = "undefined"
          => /\ Products = {}
             /\ identity = 0
             /\ \A r \in Reqs :
                   \/ req[r].pc = "idle"
                   \/ req[r].pc = "await" /\ ENABLED AwaitPool(r)
                   \/ /\ req[r].pc = "done"
                      /\ \/ req[r].res.status = 500 /\ req[r].pool = "undefined"
                         \/ /\ req[r].res.status = 400
                            /\ req[r].method \in {"POST", "PUT"}
                            /\ MissingRequired(req[r].body))
    /\ [][poolPromise = "undefined"
          => poolPromise' = "undefined" /\ connectCalls' = connectCalls]_vars

C7_Witness ==
    /\ poolPromise = "undefined"
    /\ \E r, s \in Reqs :
          /\ Done(r, "LIST")
          /\ req[r].res.status = 500
          /\ Done(s, "PUT")
          /\ req[s].body = Laptop
          /\ req[s].res.status = 500

\* C8: every row of the table has a name, a price and a qty that are not NULL.
C8_RequiredColumnsNotNull ==
    \A row \in Products :
        /\ row.name # Null
        /\ row.price # Null
        /\ row.qty # Null

C8_Witness ==
    /\ Cardinality(Products) = 2
    /\ \E r \in Reqs : Done(r, "PUT") /\ req[r].res.status = 200
    /\ \E r \in Reqs : Done(r, "POST") /\ req[r].res.status = 201

\* C9: when the UPDATE of a PUT runs and a row has the id, the response is
\* 200, that row becomes the record of the body (description "" when the body
\* omits it) under the same id, the ids of the table stay the same and every
\* other row is unchanged.
C9_PutReplaces ==
    [][\A r \in Reqs :
          (/\ StatementOf(r, "PUT")
           /\ Numeric(req[r].id)
           /\ IdParam(req[r].id) \in Ids(Products))
          => LET id == IdParam(req[r].id)
             IN  /\ req'[r].res.status = 200
                 /\ WhereId(Products', id) = {RecordOf(id, req[r].body)}
                 /\ Ids(Products') = Ids(Products)
                 /\ \A row \in Products : row.id # id => row \in Products']_vars

C9_Witness ==
    \E r \in Reqs :
        /\ Done(r, "PUT")
        /\ req[r].res.status = 200
        /\ req[r].body = Laptop
        /\ RecordOf(IdParam(req[r].id), Laptop) \in Products
        /\ \E row \in Products : row.name = Str("Mouse")

\* C10: the status of a PUT or DELETE is 200 exactly when its own statement
\* found the row (rowsAffected at that step), a PUT answered 200 has written
\* its values into the row, and two DELETEs of the same id held by the two
\* contexts are never both answered 200.
C10_DecidedByOwnStatement ==
    /\ [][\A r \in Reqs, m \in {"PUT", "DELETE"} :
             (StatementOf(r, m) /\ Numeric(req[r].id))
             => LET id == IdParam(req[r].id)
                IN  /\ req'[r].rowsAffected = Cardinality(WhereId(Products, id))
                    /\ req'[r].res.status = 200 <=> id \in Ids(Products)
                    /\ req'[r].res.status = 404 <=> id \notin Ids(Products)
                    /\ (m = "PUT" /\ req'[r].res.status = 200)
                       => RecordOf(id, req[r].body) \in Products'
                    /\ m = "DELETE" => id \notin Ids(Products')]_vars
    /\ [](\A r, s \in Reqs :
             (/\ r # s
              /\ Done(r, "DELETE")
              /\ Done(s, "DELETE")
              /\ Numeric(req[r].id)
              /\ IdParam(req[r].id) = IdParam(req[s].id))
             => ~(req[r].res.status = 200 /\ req[s].res.status = 200))

C10_Witness ==
    \E r, s \in Reqs :
        /\ Done(r, "DELETE")
        /\ req[r].res.status = 200
        /\ Done(s, "DELETE")
        /\ req[s].id = req[r].id
        /\ req[s].res.status = 404
        /\ req[s].pool = "pool"

====
